---- MODULE Spec2Model ----
(***************************************************************************)
(* The CockroachDB event store: CRDB.Push (optimistic-concurrency append   *)
(* of a batch of events in one transaction, one goroutine per event) over  *)
(* an append-only log of committed rows.                                   *)
(*                                                                         *)
(* One step of a goroutine is one action.  The goroutines of one Push      *)
(* share the closure's variable err without synchronisation; the model     *)
(* interleaves their writes and reads of it, so a read returns any value   *)
(* the race can produce.                                                   *)
(***************************************************************************)
EXTENDS Integers, Sequences, FiniteSets, TLC

\* ---------------------------------------------------------------- bounds
NumCallers == 2     \* concurrent callers of Push
MaxPushes == 2      \* Push calls in one behaviour
MaxBatch == 2       \* events in one Push call
MaxInFlight == 2    \* events of all the Push calls that run at one time
MaxPrevSeq == 1     \* largest PreviousSequence a caller supplies
MaxQueryLen == 11   \* characters of a query string given to placeholder
MaxLogLen == 3      \* committed rows of the table Filter and LatestSequence read
MaxFilters == 2     \* conditions of one SearchQuery
MaxSeqValue == 2    \* largest sequence a condition of a SearchQuery names

Callers == 1..NumCallers

\* The aggregates the callers write to: (aggregateType, aggregateID).
Aggregates == {<<"user", "1">>, <<"user", "2">>}

\* SQL NULL
Null == -1

VARIABLES
    log,      \* eventstore.events: the committed rows, in commit order
    call,     \* per caller: the number of its Push call, among all calls
    pushes,   \* Push calls started so far
    pc,       \* per caller: "idle", "begin", "run", "done"
    events,   \* per caller: the events of its Push call (the caller's structs)
    tpc,      \* per caller, per event: the goroutine's position
    tprev,    \* per caller, per event: the goroutine's local previousSequence
    tres,     \* per caller, per event: what the goroutine's own step did
    err,      \* per caller: the closure's variable err, shared by the goroutines
    errs,     \* per caller: the channel errs
    tx,       \* per caller: the open transaction
    ret,      \* per caller: the error Push returned ("none" while it runs)
    query,    \* placeholder: its parameter, a string as a sequence of characters
    replaced, \* placeholder: what it returned (NotCalled before the call)
    searchQuery, \* Filter, LatestSequence: the parameter of the last call
    result,   \* Filter, LatestSequence: what the last call returned
    executed  \* Filter, LatestSequence: backend queries the last call executed

pushVars == <<log, call, pushes, pc, events, tpc, tprev, tres, err, errs, tx, ret>>
placeholderVars == <<query, replaced>>
queryVars == <<searchQuery, result, executed>>
vars == <<pushVars, placeholderVars, queryVars>>

\* ---------------------------------------------------------------- errors
\* The kind of a caos error, by its id.
Kind(e) ==
    CASE e = "nil" -> "nil"
      [] e = "SQL-J55uR" -> "PreconditionFailed"
      [] e = "SQL-OdXRE" -> "Internal"
      [] e = "SQL-SBP37" -> "Internal"
      [] e = "SQL-DjgtG" -> "Internal"
      [] e = "SQL-rWeBw" -> "InvalidArgument"
      [] e = "SQL-IJuyR" -> "Internal"
      [] e = "scan error" -> "Internal"

IsCaosError(e) == e \in {"SQL-J55uR", "SQL-OdXRE", "SQL-SBP37", "SQL-DjgtG"}

\* WrapError without the test err != nil.
WrapErrorNilToo(e) ==
    IF ~IsCaosError(e) THEN "SQL-DjgtG" ELSE e

\* Push's last lines: an error that is no caos error is wrapped as internal.
WrapError(e) ==
    IF e # "nil" /\ ~IsCaosError(e) THEN "SQL-DjgtG" ELSE e

\* ---------------------------------------------------------------- Sequence
\* Sequence.Value: the zero sequence is bound as NULL.
SequenceValue(seq) == IF seq = 0 THEN Null ELSE seq

\* Sequence.Scan: NULL is scanned as the zero sequence.
SequenceScan(v) == IF v = Null THEN 0 ELSE v

\* ---------------------------------------------------------------- the table
SeqMax(S) == CHOOSE m \in S : \A x \in S : x <= m

\* View for statements that run outside the transaction: the committed rows
\* only.
ViewCommittedOnly(t) == SubSeq(log, 1, t.base)

\* The rows a transaction sees: the rows committed when it began, and its own.
View(t) == SubSeq(log, 1, t.base) \o t.writes

StreamSeqs(rows, aggType, aggID) ==
    {rows[k].event_sequence : k \in {j \in 1..Len(rows) :
        rows[j].aggregate_type = aggType /\ rows[j].aggregate_id = aggID}}

\* MAX(event_sequence) ... WHERE aggregate_type = $2 AND aggregate_id = $3
MaxEventSeq(rows, aggType, aggID) ==
    IF StreamSeqs(rows, aggType, aggID) = {} THEN Null
    ELSE SeqMax(StreamSeqs(rows, aggType, aggID))

\* The sequence the table gives a new row of a stream.
NextSequence(rows, aggType, aggID) ==
    IF MaxEventSeq(rows, aggType, aggID) = Null THEN 1
    ELSE MaxEventSeq(rows, aggType, aggID) + 1

\* SQL's three-valued a = b: "U" (unknown) when an operand is NULL.
SqlEq(a, b) == IF a = Null \/ b = Null THEN "U" ELSE IF a = b THEN "T" ELSE "F"
SqlAnd(a, b) == IF a = "F" \/ b = "F" THEN "F" ELSE IF a = "T" /\ b = "T" THEN "T" ELSE "U"
SqlOr(a, b) == IF a = "T" \/ b = "T" THEN "T" ELSE IF a = "F" /\ b = "F" THEN "F" ELSE "U"
SqlIsNull(a) == IF a = Null THEN "T" ELSE "F"
SqlIsNotNull(a) == IF a = Null THEN "F" ELSE "T"

\* The scalar subquery SELECT 1 FROM input_event WHERE (...): 1, or NULL
\* when the one row of input_event does not pass the WHERE.
MatchSubquery(maxSeq, prevSeq) ==
    IF SqlOr(SqlAnd(SqlIsNull(maxSeq), SqlIsNull(prevSeq)),
             SqlAnd(SqlIsNotNull(maxSeq), SqlEq(maxSeq, prevSeq))) = "T"
    THEN 1 ELSE Null

\* InsertWhere without the arm "max_event_seq IS NULL AND previous_sequence IS
\* NULL" of the subquery.
InsertWhereNoEmptyArm(check, maxSeq, prevSeq) ==
    SqlEq(1, IF ~check THEN 1
             ELSE IF SqlAnd(SqlIsNotNull(maxSeq), SqlEq(maxSeq, prevSeq)) = "T"
                  THEN 1 ELSE Null) = "T"

\* WHERE 1 = CASE WHEN NOT check_previous THEN 1 ELSE (subquery) END
InsertWhere(check, maxSeq, prevSeq) ==
    SqlEq(1, IF ~check THEN 1 ELSE MatchSubquery(maxSeq, prevSeq)) = "T"

\* InsertedPrevious without the CASE: the previous sequence as supplied.
InsertedPreviousAsSupplied(check, prevSeq) == prevSeq

\* The previous_sequence column of the inserted row.
InsertedPrevious(check, prevSeq) == IF ~check THEN Null ELSE prevSeq

\* ---------------------------------------------------------------- Push
\* The events a caller can hand to Push: events 1..n of one batch.  ID and
\* Sequence are not supplied by the caller.  PreviousEvent is the index of the
\* linked event, an earlier event of the batch, 0 for nil.
EventInputs(n) ==
    [AggregateType : {a[1] : a \in Aggregates},
     AggregateID : {a[2] : a \in Aggregates},
     PreviousSequence : 0..MaxPrevSeq,
     PreviousEvent : 0..n,
     CheckPreviousSequence : BOOLEAN,
     ID : {0},
     Sequence : {0}]

Batches(n) ==
    {b \in [1..n -> EventInputs(n)] :
        \A i \in 1..n : /\ <<b[i].AggregateType, b[i].AggregateID>> \in Aggregates
                        /\ b[i].PreviousEvent < i}

\* The events of the Push calls that are running.
InFlight == LET n[k \in 0..NumCallers] ==
                    IF k = 0 THEN 0 ELSE n[k - 1] + Len(events[k])
            IN  n[NumCallers]

\* The id the table gives a new row: a fresh value for every inserted row
\* (of the rows that can be committed together).
RowID(c, i) == (call[c] - 1) * MaxBatch + i

NoTx == [base |-> 0, writes |-> <<>>, reads |-> {}, aborted |-> FALSE]

\* The table when the callers start: empty, or holding the first event of one
\* aggregate, appended by an earlier Push without the concurrency check.
InitialLogs ==
    {<<>>,
     <<[id |-> 0, event_sequence |-> 1, previous_sequence |-> Null,
        aggregate_type |-> "user", aggregate_id |-> "1", check_previous |-> FALSE]>>}

PushIdle ==
    /\ call = [c \in Callers |-> 0]
    /\ pushes = 0
    /\ pc = [c \in Callers |-> "idle"]
    /\ events = [c \in Callers |-> <<>>]
    /\ tpc = [c \in Callers |-> <<>>]
    /\ tprev = [c \in Callers |-> <<>>]
    /\ tres = [c \in Callers |-> <<>>]
    /\ err = [c \in Callers |-> "nil"]
    /\ errs = [c \in Callers |-> <<>>]
    /\ tx = [c \in Callers |-> NoTx]
    /\ ret = [c \in Callers |-> "none"]

\* No call of placeholder, Filter or LatestSequence has been made.
NotCalled == <<"not called">>
NoSearchQuery == [Filters |-> <<>>]
NoResult == [op |-> "none", events |-> <<>>, seq |-> 0, err |-> "nil",
             decoded |-> 0, broken |-> FALSE]

PlaceholderIdle == query = <<>> /\ replaced = NotCalled
QueryIdle == searchQuery = NoSearchQuery /\ result = NoResult /\ executed = 0

Init ==
    /\ log \in InitialLogs
    /\ PushIdle
    /\ PlaceholderIdle
    /\ QueryIdle

\* A caller calls Push(events...).  Callers keep nothing between two calls, so
\* the call is made by the first caller that is free.
Push(c) ==
    /\ pc[c] = "idle"
    /\ \A d \in Callers : d < c => pc[d] # "idle"
    /\ pushes < MaxPushes
    /\ \E n \in 0..MaxBatch : \E b \in Batches(n) :
          /\ InFlight + n <= MaxInFlight
          /\ events' = [events EXCEPT ![c] = b]
    /\ pushes' = pushes + 1
    /\ call' = [call EXCEPT ![c] = pushes + 1]
    /\ pc' = [pc EXCEPT ![c] = "begin"]
    /\ ret' = [ret EXCEPT ![c] = "none"]
    /\ UNCHANGED <<log, tpc, tprev, tres, err, errs, tx>>
    /\ UNCHANGED <<placeholderVars, queryVars>>

\* crdb.ExecuteTx begins a transaction and runs the closure: the statement is
\* prepared, the channel made, and one goroutine per event started.
PrepareOK(c) ==
    /\ pc[c] = "begin"
    /\ tx' = [tx EXCEPT ![c] = [base |-> Len(log), writes |-> <<>>,
                                reads |-> {}, aborted |-> FALSE]]
    /\ err' = [err EXCEPT ![c] = "nil"]
    /\ errs' = [errs EXCEPT ![c] = <<>>]
    /\ tpc' = [tpc EXCEPT ![c] = [i \in 1..Len(events[c]) |-> "start"]]
    /\ tprev' = [tprev EXCEPT ![c] = [i \in 1..Len(events[c]) |-> 0]]
    /\ tres' = [tres EXCEPT ![c] = [i \in 1..Len(events[c]) |-> "none"]]
    /\ pc' = [pc EXCEPT ![c] = "run"]
    /\ UNCHANGED <<log, call, pushes, events, ret>>
    /\ UNCHANGED <<placeholderVars, queryVars>>

\* tx.PrepareContext fails: the closure returns SQL-OdXRE, the transaction is
\* rolled back and Push returns the error.
PrepareFail(c) ==
    /\ pc[c] = "begin"
    /\ ret' = [ret EXCEPT ![c] = WrapError("SQL-OdXRE")]
    /\ pc' = [pc EXCEPT ![c] = "done"]
    /\ UNCHANGED <<log, call, pushes, events, tpc, tprev, tres, err, errs, tx>>
    /\ UNCHANGED <<placeholderVars, queryVars>>

\* TaskStart without the return after the send of SQL-J55uR: the goroutine
\* goes on to its statement.
TaskStartNoReturn(c, i) ==
    /\ pc[c] = "run"
    /\ i \in 1..Len(events[c])
    /\ tpc[c][i] = "start"
    /\ LET event == events[c][i]
           linked == event.PreviousEvent # 0
           previous == events[c][event.PreviousEvent]
       IN  /\ errs' = [errs EXCEPT ![c] =
                        IF linked /\ (previous.AggregateType # event.AggregateType
                                      \/ previous.AggregateID # event.AggregateID)
                        THEN Append(@, "SQL-J55uR") ELSE @]
           /\ tprev' = [tprev EXCEPT ![c][i] =
                            IF linked THEN previous.Sequence
                            ELSE event.PreviousSequence]
           /\ tpc' = [tpc EXCEPT ![c][i] = "exec"]
    /\ UNCHANGED <<log, call, pushes, pc, events, tres, err, tx, ret>>
    /\ UNCHANGED <<placeholderVars, queryVars>>

\* The goroutine of event i up to the statement: it resolves previousSequence.
TaskStart(c, i) ==
    /\ pc[c] = "run"
    /\ i \in 1..Len(events[c])
    /\ tpc[c][i] = "start"
    /\ LET event == events[c][i]
           linked == event.PreviousEvent # 0
           previous == events[c][event.PreviousEvent]
       IN  IF linked /\ (previous.AggregateType # event.AggregateType
                         \/ previous.AggregateID # event.AggregateID)
           THEN /\ errs' = [errs EXCEPT ![c] = Append(@, "SQL-J55uR")]
                /\ tres' = [tres EXCEPT ![c][i] = "mismatch"]
                /\ tpc' = [tpc EXCEPT ![c][i] = "done"]
                /\ UNCHANGED tprev
           ELSE /\ tprev' = [tprev EXCEPT ![c][i] =
                                IF linked THEN previous.Sequence
                                ELSE event.PreviousSequence]
                /\ tpc' = [tpc EXCEPT ![c][i] = "exec"]
                /\ UNCHANGED <<errs, tres>>
    /\ UNCHANGED <<log, call, pushes, pc, events, err, tx, ret>>
    /\ UNCHANGED <<placeholderVars, queryVars>>

\* The outcome of crdbInsert for one event in transaction t: "pqError" when
\* the backend fails the statement, "row" when a row is inserted and
\* returned, "ErrNoRows" when the statement returns no row.
StatementOutcome(t, event, previousSequence, backendFails) ==
    IF t.aborted \/ backendFails THEN "pqError"
    ELSE IF InsertWhere(event.CheckPreviousSequence,
                        MaxEventSeq(View(t), event.AggregateType, event.AggregateID),
                        SequenceValue(previousSequence))
         THEN "row"
         ELSE "ErrNoRows"

\* The row crdbInsert inserts (RETURNING id, event_sequence, previous_sequence).
\* check_previous is no column of the table: it records how the row was
\* appended.
InsertedRow(t, id, event, previousSequence) ==
    [id |-> id,
     event_sequence |-> NextSequence(View(t), event.AggregateType, event.AggregateID),
     previous_sequence |-> InsertedPrevious(event.CheckPreviousSequence,
                                            SequenceValue(previousSequence)),
     aggregate_type |-> event.AggregateType,
     aggregate_id |-> event.AggregateID,
     check_previous |-> event.CheckPreviousSequence]

\* err = stmt.QueryRowContext(...).Scan(&event.ID, &event.Sequence,
\* &previousSequence, &event.CreationDate)
TaskExec(c, i) ==
    /\ pc[c] = "run"
    /\ i \in 1..Len(events[c])
    /\ tpc[c][i] = "exec"
    /\ \E backendFails \in BOOLEAN :
         LET event == events[c][i]
             outcome == StatementOutcome(tx[c], event, tprev[c][i], backendFails)
             row == InsertedRow(tx[c], RowID(c, i), event, tprev[c][i])
         IN  /\ tres' = [tres EXCEPT ![c][i] = outcome]
             /\ IF outcome = "row"
                THEN /\ tx' = [tx EXCEPT ![c].writes = Append(@, row),
                                         ![c].reads = @ \cup {<<event.AggregateType, event.AggregateID>>}]
                     /\ events' = [events EXCEPT ![c][i].ID = row.id,
                                                 ![c][i].Sequence = row.event_sequence]
                     /\ tprev' = [tprev EXCEPT ![c][i] = SequenceScan(row.previous_sequence)]
                     /\ err' = [err EXCEPT ![c] = "nil"]
                ELSE /\ tx' = [tx EXCEPT ![c].aborted = @ \/ outcome = "pqError",
                                         ![c].reads = @ \cup {<<event.AggregateType, event.AggregateID>>}]
                     /\ err' = [err EXCEPT ![c] = outcome]
                     /\ UNCHANGED <<events, tprev>>
    /\ tpc' = [tpc EXCEPT ![c][i] = "post"]
    /\ UNCHANGED <<log, call, pushes, pc, errs, ret>>
    /\ UNCHANGED <<placeholderVars, queryVars>>

\* event.PreviousSequence = uint64(previousSequence); if err != nil { errs <- ... }
TaskPost(c, i) ==
    /\ pc[c] = "run"
    /\ i \in 1..Len(events[c])
    /\ tpc[c][i] = "post"
    /\ events' = [events EXCEPT ![c][i].PreviousSequence = tprev[c][i]]
    /\ errs' = [errs EXCEPT ![c] = IF err[c] # "nil" THEN Append(@, "SQL-SBP37") ELSE @]
    /\ tpc' = [tpc EXCEPT ![c][i] = "done"]
    /\ UNCHANGED <<log, call, pushes, pc, tprev, tres, err, tx, ret>>
    /\ UNCHANGED <<placeholderVars, queryVars>>

\* AllDone for a closure that leaves at the first error of the channel,
\* without waiting for the goroutines.
AllDoneOrFirstError(c) ==
    /\ pc[c] = "run"
    /\ \/ \A i \in 1..Len(events[c]) : tpc[c][i] = "done"
       \/ errs[c] # <<>>

\* wg.Wait() has returned: every goroutine of the batch is done.
AllDone(c) == pc[c] = "run" /\ \A i \in 1..Len(events[c]) : tpc[c][i] = "done"

\* ClosureResult that keeps the last error of the channel.
ClosureResultLast(c) == IF errs[c] = <<>> THEN "nil" ELSE errs[c][Len(errs[c])]

\* for err := range errs { return err }; return nil
ClosureResult(c) == IF errs[c] = <<>> THEN "nil" ELSE Head(errs[c])

\* Conflict for a transaction that is not serializable: it commits whatever
\* was committed since it began.
ConflictNever(c) == FALSE

\* A serializable transaction cannot commit its writes when a stream it read
\* has got a row committed since it began; crdb.ExecuteTx then runs the
\* closure again.
Conflict(c) ==
    /\ tx[c].writes # <<>>
    /\ \E k \in (tx[c].base + 1)..Len(log) :
          <<log[k].aggregate_type, log[k].aggregate_id>> \in tx[c].reads

\* The closure returned an error: crdb.ExecuteTx rolls back.
Rollback(c) ==
    /\ AllDone(c)
    /\ ClosureResult(c) # "nil"
    /\ ret' = [ret EXCEPT ![c] = WrapError(ClosureResult(c))]
    /\ pc' = [pc EXCEPT ![c] = "done"]
    /\ UNCHANGED <<log, call, pushes, events, tpc, tprev, tres, err, errs, tx>>
    /\ UNCHANGED <<placeholderVars, queryVars>>

\* The commit meets a serialization conflict: the closure runs again, on the
\* same event structs.
Retry(c) ==
    /\ AllDone(c)
    /\ ClosureResult(c) = "nil"
    /\ Conflict(c)
    /\ pc' = [pc EXCEPT ![c] = "begin"]
    /\ tpc' = [tpc EXCEPT ![c] = <<>>]
    /\ tprev' = [tprev EXCEPT ![c] = <<>>]
    /\ tres' = [tres EXCEPT ![c] = <<>>]
    /\ err' = [err EXCEPT ![c] = "nil"]
    /\ errs' = [errs EXCEPT ![c] = <<>>]
    /\ tx' = [tx EXCEPT ![c] = NoTx]
    /\ UNCHANGED <<log, call, pushes, events, ret>>
    /\ UNCHANGED <<placeholderVars, queryVars>>

\* The closure returned nil: crdb.ExecuteTx commits.  (A goroutine whose
\* statement the backend failed always finds err set, every later write of err
\* in the failed transaction being an error too: the closure never returns nil
\* from a failed transaction.)
Commit(c) ==
    /\ AllDone(c)
    /\ ClosureResult(c) = "nil"
    /\ ~Conflict(c)
    /\ log' = log \o tx[c].writes
    /\ ret' = [ret EXCEPT ![c] = WrapError("nil")]
    /\ pc' = [pc EXCEPT ![c] = "done"]
    /\ UNCHANGED <<call, pushes, events, tpc, tprev, tres, err, errs, tx>>
    /\ UNCHANGED <<placeholderVars, queryVars>>

\* Push has returned; the caller is free to call it again.
Return(c) ==
    /\ pc[c] = "done"
    /\ pc' = [pc EXCEPT ![c] = "idle"]
    /\ events' = [events EXCEPT ![c] = <<>>]
    /\ tpc' = [tpc EXCEPT ![c] = <<>>]
    /\ tprev' = [tprev EXCEPT ![c] = <<>>]
    /\ tres' = [tres EXCEPT ![c] = <<>>]
    /\ err' = [err EXCEPT ![c] = "nil"]
    /\ errs' = [errs EXCEPT ![c] = <<>>]
    /\ tx' = [tx EXCEPT ![c] = NoTx]
    /\ ret' = [ret EXCEPT ![c] = "none"]
    /\ UNCHANGED <<log, call, pushes>>
    /\ UNCHANGED <<placeholderVars, queryVars>>

Next ==
    \E c \in Callers :
        \/ Push(c)
        \/ PrepareOK(c)
        \/ PrepareFail(c)
        \/ \E i \in 1..MaxBatch : TaskStart(c, i)
        \/ \E i \in 1..MaxBatch : TaskExec(c, i)
        \/ \E i \in 1..MaxBatch : TaskPost(c, i)
        \/ Rollback(c)
        \/ Retry(c)
        \/ Commit(c)
        \/ Return(c)

Spec == Init /\ [][Next]_vars

\* The steps of the goroutines of caller c's Push call.
TaskStep(c) ==
    \E i \in 1..MaxBatch : TaskStart(c, i) \/ TaskExec(c, i) \/ TaskPost(c, i)

\* The callers start on an empty table.
InitEmpty == Init /\ log = <<>>

\* The Go scheduler runs every goroutine that can run, and the backend answers
\* every statement.  (The fan-out of a Push call does not depend on the rows
\* the table starts with: the behaviours start on the empty table.)
FairSpec == InitEmpty /\ [][Next]_vars /\ \A c \in Callers : WF_vars(TaskStep(c))

\* ---------------------------------------------------------------------
\* placeholder
\* ---------------------------------------------------------------------

\* The characters of the query strings: the marker and two others.
Chars == {"?", "a", "b"}
Queries == UNION {[1..n -> Chars] : n \in 0..MaxQueryLen}

\* strconv.Itoa of n >= 0: the decimal digits, the most significant first.
Digits == <<"0", "1", "2", "3", "4", "5", "6", "7", "8", "9">>
RECURSIVE Itoa(_)
Itoa(n) ==
    IF n < 10 THEN <<Digits[n + 1]>>
    ELSE Append(Itoa(n \div 10), Digits[(n % 10) + 1])

\* regexp `\?`, FindAllStringIndex(query, -1): the matches from the left,
\* each a pair of the offset of its first byte and the offset after its last.
RECURSIVE FindFrom(_, _)
FindFrom(q, offset) ==
    IF offset >= Len(q) THEN <<>>
    ELSE IF q[offset + 1] = "?"
         THEN <<<<offset, offset + 1>>>> \o FindFrom(q, offset + 1)
         ELSE FindFrom(q, offset + 1)

FindAllStringIndex(q) == FindFrom(q, 0)

\* The Go slice q[from:to].
Slice(q, from, to) == SubSeq(q, from + 1, to)

\* placeholder numbering the markers by the loop index i, not i+1.
placeholderFromZero(q) ==
    LET occurances == FindAllStringIndex(q)
        loop[n \in 0..Len(occurances)] ==
            IF n = 0 THEN Slice(q, 0, occurances[1][1])
            ELSE LET i == n - 1
                     l == occurances[i + 1]
                     nextIDX == IF i < Len(occurances) - 1
                                THEN occurances[i + 2][1] ELSE Len(q)
                 IN  loop[n - 1] \o <<"$">> \o Itoa(i) \o Slice(q, l[2], nextIDX)
    IN  IF Len(occurances) = 0 THEN q ELSE loop[Len(occurances)]

\* placeholder: i is the loop index of the code (from 0), loop[n] the value
\* of replaced after n iterations.
placeholder(q) ==
    LET occurances == FindAllStringIndex(q)
        loop[n \in 0..Len(occurances)] ==
            IF n = 0 THEN Slice(q, 0, occurances[1][1])
            ELSE LET i == n - 1
                     l == occurances[i + 1]
                     nextIDX == IF i < Len(occurances) - 1
                                THEN occurances[i + 2][1] ELSE Len(q)
                 IN  loop[n - 1] \o <<"$">> \o Itoa(i + 1) \o Slice(q, l[2], nextIDX)
    IN  IF Len(occurances) = 0 THEN q ELSE loop[Len(occurances)]

InitPlaceholder ==
    /\ log = <<>>
    /\ PushIdle
    /\ QueryIdle
    /\ query \in Queries
    /\ replaced = NotCalled

CallPlaceholder ==
    /\ replaced = NotCalled
    /\ replaced' = placeholder(query)
    /\ UNCHANGED <<pushVars, queryVars, query>>

NextPlaceholder == CallPlaceholder

SpecPlaceholder == InitPlaceholder /\ [][NextPlaceholder]_vars

\* ---------------------------------------------------------------------
\* Filter, LatestSequence
\* ---------------------------------------------------------------------

\* The SearchQuery values: the fields whose columns the rows of log carry, and
\* one field the store does not know.  A value is a scalar or an array.
Fields == {"FieldAggregateID", "FieldAggregateType", "FieldSequence", "FieldUnknown"}

FieldValues(field) ==
    CASE field = "FieldAggregateID" -> {a[2] : a \in Aggregates}
      [] field = "FieldAggregateType" -> {a[1] : a \in Aggregates}
      [] field = "FieldSequence" -> 1..MaxSeqValue
      [] OTHER -> {"x"}

FieldOperations(field) ==
    CASE field = "FieldSequence" ->
             {"OperationEquals", "OperationGreater", "OperationLess", "OperationIn"}
      [] field = "FieldUnknown" -> {"OperationEquals"}
      [] OTHER -> {"OperationEquals", "OperationIn"}

\* A value holds its elements: one for a scalar.
Scalar(v) == [array |-> FALSE, v |-> {v}]
Array(S) == [array |-> TRUE, v |-> S]
ScalarOf(value) == CHOOSE x \in value.v : TRUE

FiltersOf(field) ==
    {[Field |-> field, Operation |-> o, Value |-> v] :
        o \in FieldOperations(field),
        v \in {Scalar(x) : x \in FieldValues(field)}
              \cup (IF field = "FieldUnknown" THEN {}
                    ELSE {Array(S) : S \in SUBSET FieldValues(field)})}

AllFilters == UNION {FiltersOf(field) : field \in Fields}

SearchQueries(columns) ==
    {[Columns |-> columns, Filters |-> fs] :
        fs \in UNION {[1..n -> AllFilters] : n \in 0..MaxFilters}}

\* The tables Push leaves behind: every row carries the next sequence of its
\* stream (rows appended without the check, one Push call each).
RowsOf(aggs) ==
    [k \in 1..Len(aggs) |->
        [id |-> k,
         event_sequence |-> Cardinality({j \in 1..k : aggs[j] = aggs[k]}),
         previous_sequence |-> Null,
         aggregate_type |-> aggs[k][1],
         aggregate_id |-> aggs[k][2],
         check_previous |-> FALSE]]

QueryLogs == {RowsOf(aggs) : aggs \in UNION {[1..n -> Aggregates] : n \in 0..MaxLogLen}}

\* SQL text is a sequence of tokens; "?" is a token of its own.
eventQuery == <<"SELECT", "creation_date, ..., aggregate_version", "FROM eventstore.events">>

\* maxSequenceQuery returning the projection of eventQuery.
maxSequenceQueryAllColumns == eventQuery

maxSequenceQuery == <<"SELECT", "MAX(event_sequence)", "FROM eventstore.events">>

\* columnName returning the field itself for a field it does not know.
columnNameOrField(col) ==
    CASE col = "FieldAggregateID" -> "aggregate_id"
      [] col = "FieldAggregateType" -> "aggregate_type"
      [] col = "FieldSequence" -> "event_sequence"
      [] col = "FieldResourceOwner" -> "resource_owner"
      [] col = "FieldEditorService" -> "editor_service"
      [] col = "FieldEditorUser" -> "editor_user"
      [] col = "FieldEventType" -> "event_type"
      [] OTHER -> col

columnName(col) ==
    CASE col = "FieldAggregateID" -> "aggregate_id"
      [] col = "FieldAggregateType" -> "aggregate_type"
      [] col = "FieldSequence" -> "event_sequence"
      [] col = "FieldResourceOwner" -> "resource_owner"
      [] col = "FieldEditorService" -> "editor_service"
      [] col = "FieldEditorUser" -> "editor_user"
      [] col = "FieldEventType" -> "event_type"
      [] OTHER -> ""

\* conditionFormat without the case of OperationIn.
conditionFormatBinary(op) == <<"%s", "%s", "?">>

conditionFormat(op) ==
    IF op = "OperationIn" THEN <<"%s", "%s", "ANY(", "?", ")">>
    ELSE <<"%s", "%s", "?">>

operation(op) ==
    CASE op \in {"OperationEquals", "OperationIn"} -> "="
      [] op = "OperationGreater" -> ">"
      [] op = "OperationLess" -> "<"
      [] OTHER -> ""

\* fmt.Sprintf(format, args...): the verbs replaced by the arguments in order.
RECURSIVE Sprintf(_, _)
Sprintf(format, args) ==
    IF format = <<>> THEN <<>>
    ELSE IF Head(format) = "%s" /\ args # <<>>
         THEN <<Head(args)>> \o Sprintf(Tail(format), Tail(args))
         ELSE <<Head(format)>> \o Sprintf(Tail(format), args)

\* buildQuery: the projection of the intent, the conditions AND-joined in the
\* order supplied, the values in the same order, the markers translated; the
\* empty SQL text when a field has no column.
RECURSIVE Where(_, _)
Where(filters, n) ==
    IF n > Len(filters) THEN <<>>
    ELSE <<(IF n = 1 THEN "WHERE" ELSE "AND")>>
         \o Sprintf(conditionFormat(filters[n].Operation),
                    <<columnName(filters[n].Field), operation(filters[n].Operation)>>)
         \o Where(filters, n + 1)

BuildQuery(sq) ==
    IF \E n \in 1..Len(sq.Filters) :
           columnName(sq.Filters[n].Field) = "" \/ operation(sq.Filters[n].Operation) = ""
    THEN [query |-> <<>>, values |-> <<>>, rowScanner |-> "none"]
    ELSE [query |-> placeholder(
                        (IF sq.Columns = "ColumnsMaxSequence"
                         THEN maxSequenceQuery ELSE eventQuery)
                        \o Where(sq.Filters, 1)),
          values |-> [n \in 1..Len(sq.Filters) |-> sq.Filters[n].Value],
          rowScanner |-> IF sq.Columns = "ColumnsMaxSequence"
                         THEN "maxSequenceScanner" ELSE "eventsScanner"]

\* The backend's reading of the SQL text.  strconv-like: the number a run of
\* digit tokens denotes.
IsDigit(t) == \E d \in 1..10 : Digits[d] = t

RECURSIVE DigitRun(_)
DigitRun(ts) ==
    IF ts # <<>> /\ IsDigit(Head(ts)) THEN <<Head(ts)>> \o DigitRun(Tail(ts)) ELSE <<>>

RECURSIVE Atoi(_)
Atoi(ds) ==
    IF ds = <<>> THEN 0
    ELSE Atoi(SubSeq(ds, 1, Len(ds) - 1)) * 10
         + ((CHOOSE d \in 1..10 : Digits[d] = ds[Len(ds)]) - 1)

\* The conditions of the tokens ts, which follow WHERE or AND: column,
\* comparison, "$n" or "ANY($n)".  A condition that is no SQL has param 0.
RECURSIVE Conditions(_)
Conditions(ts) ==
    IF ts = <<>> THEN <<>>
    ELSE IF Len(ts) < 4 THEN <<[column |-> "", cmp |-> "", any |-> FALSE, param |-> 0]>>
    ELSE LET any == ts[3] = "ANY("
             rest == SubSeq(ts, (IF any THEN 4 ELSE 3), Len(ts))
             digits == DigitRun(Tail(rest))
             after == SubSeq(rest, Len(digits) + (IF any THEN 3 ELSE 2), Len(rest))
             wellFormed == /\ Head(rest) = "$"
                           /\ digits # <<>>
                           /\ any => (Len(rest) >= Len(digits) + 2
                                      /\ rest[Len(digits) + 2] = ")")
                           /\ after # <<>> => Head(after) = "AND" /\ Len(after) > 1
         IN  IF ~wellFormed
             THEN <<[column |-> ts[1], cmp |-> ts[2], any |-> any, param |-> 0]>>
             ELSE <<[column |-> ts[1], cmp |-> ts[2], any |-> any, param |-> Atoi(digits)]>>
                  \o (IF after = <<>> THEN <<>> ELSE Conditions(Tail(after)))

Columns == {"event_sequence", "aggregate_type", "aggregate_id"}

\* The statement is one the backend executes: known columns and comparisons,
\* every parameter bound, an array for ANY and a scalar otherwise.  (The
\* queries drawn order sequences only.)
Executable(conds, values) ==
    \A n \in 1..Len(conds) :
        /\ conds[n].column \in Columns
        /\ conds[n].cmp \in {"=", ">", "<"}
        /\ conds[n].param \in 1..Len(values)
        /\ values[conds[n].param].array = conds[n].any
        /\ conds[n].cmp # "=" => conds[n].column = "event_sequence"

Holds(row, cond, values) ==
    LET v == values[cond.param]
        x == row[cond.column]
    IN  CASE cond.any -> x \in v.v
          [] cond.cmp = "=" -> x = ScalarOf(v)
          [] cond.cmp = ">" -> x > ScalarOf(v)
          [] cond.cmp = "<" -> x < ScalarOf(v)

\* db.client.Query on the committed rows: the statement fails, or the result
\* set in the order of the table.  MAX over no row is one row holding NULL.
ClientQuery(sqlText, values, table) ==
    LET conds == IF Len(sqlText) > 3
                 THEN IF sqlText[4] = "WHERE" THEN Conditions(SubSeq(sqlText, 5, Len(sqlText)))
                      ELSE <<[column |-> "", cmp |-> "", any |-> FALSE, param |-> 0]>>
                 ELSE <<>>
        selected == SelectSeq(table,
                        LAMBDA row : \A n \in 1..Len(conds) : Holds(row, conds[n], values))
        seqs == {selected[k].event_sequence : k \in 1..Len(selected)}
    IN  IF ~Executable(conds, values) THEN [ok |-> FALSE, rows |-> <<>>]
        ELSE IF sqlText[2] = "MAX(event_sequence)"
             THEN [ok |-> TRUE,
                   rows |-> <<[max |-> IF seqs = {} THEN Null ELSE SeqMax(seqs)]>>]
             ELSE [ok |-> TRUE, rows |-> selected]

\* The Event eventsScanner decodes from a row.
ScannedEvent(row) ==
    [Sequence |-> row.event_sequence,
     PreviousSequence |-> SequenceScan(row.previous_sequence),
     AggregateType |-> row.aggregate_type,
     AggregateID |-> row.aggregate_id]

\* rowScanner(rows.Scan, dest): the new dest; the scan fails when the backend
\* fails it or the row has not the columns of the scanner.
RowScanner(scanner, row, dest, scanFails) ==
    IF scanFails \/ (scanner = "maxSequenceScanner") # (DOMAIN row = {"max"})
    THEN [ok |-> FALSE, dest |-> dest]
    ELSE IF scanner = "maxSequenceScanner"
         THEN [ok |-> TRUE, dest |-> SequenceScan(row.max)]
         ELSE [ok |-> TRUE, dest |-> Append(dest, ScannedEvent(row))]

\* What the backend does to one call: nothing, db.client.Query fails, the
\* row-th call of rows.Next returns false because the result set broke, or
\* the scan of the row-th row fails.
Failures(maxRows) ==
    {[at |-> "none", row |-> 0], [at |-> "query", row |-> 0]}
    \cup {[at |-> w, row |-> k] : w \in {"next", "scan"}, k \in 1..maxRows}

\* "for rows.Next() { err = rowScanner(rows.Scan, dest) ... }": loop[k] is the
\* state after k iterations; rows.Err is not consulted.
ScanRows(rowScanner, rows, dest0, failure) ==
    LET loop[k \in 0..(Len(rows) + 1)] ==
            IF k = 0 THEN [dest |-> dest0, err |-> "nil", done |-> FALSE]
            ELSE LET p == loop[k - 1]
                 IN  IF p.done THEN p
                     ELSE IF k > Len(rows) \/ failure = [at |-> "next", row |-> k]
                          THEN [p EXCEPT !.done = TRUE]
                          ELSE \* one call of rowScanner
                               CHOOSE q \in
                                 {IF scanned.ok THEN [p EXCEPT !.dest = scanned.dest]
                                  ELSE [p EXCEPT !.err = "scan error", !.done = TRUE] :
                                    scanned \in {RowScanner(rowScanner, rows[k], p.dest,
                                                   failure = [at |-> "scan", row |-> k])}} :
                                 TRUE
    IN  loop[Len(rows) + 1]

\* db.query with the query built and the outcome of db.client.Query.
QueryBuilt(built, rows, dest0, failure) ==
    IF built.query = <<>>
    THEN [err |-> "SQL-rWeBw", dest |-> dest0, executed |-> 0]
    ELSE IF ~rows.ok
         THEN [err |-> "SQL-IJuyR", dest |-> dest0, executed |-> 1]
         ELSE [err |-> ScanRows(built.rowScanner, rows.rows, dest0, failure).err,
               dest |-> ScanRows(built.rowScanner, rows.rows, dest0, failure).dest,
               executed |-> 1]

\* db.query.
DbQuery(sq, dest0, failure) ==
    CHOOSE r \in
        {QueryBuilt(built,
                    IF built.query = <<>> \/ failure.at = "query"
                    THEN [ok |-> FALSE, rows |-> <<>>]
                    ELSE ClientQuery(built.query, built.values, log),
                    dest0, failure) : built \in {BuildQuery(sq)}} : TRUE

\* Filter returning the decoded events with the error.
FilterReturnDecoded(dest, e) == dest

\* Filter, lines 179-183: nil (the empty list) with an error.
FilterReturn(dest, e) == IF e # "nil" THEN <<>> ELSE dest

LatestSequenceReturn(seq, e) == IF e # "nil" THEN 0 ELSE seq

Filter ==
    /\ result = NoResult
    /\ \E sq \in SearchQueries("ColumnsEvent"), failure \in Failures(MaxLogLen) :
          \E r \in {DbQuery(sq, <<>>, failure)} :
              /\ searchQuery' = sq
              /\ result' = [op |-> "Filter", events |-> FilterReturn(r.dest, r.err),
                            seq |-> 0, err |-> r.err,
                            decoded |-> Len(r.dest), broken |-> failure.at # "none"]
              /\ executed' = r.executed
    /\ UNCHANGED <<pushVars, placeholderVars>>

LatestSequence ==
    /\ result = NoResult
    /\ \E sq \in SearchQueries("ColumnsMaxSequence"), failure \in Failures(1) :
          \E r \in {DbQuery(sq, 0, failure)} :
              /\ searchQuery' = sq
              /\ result' = [op |-> "LatestSequence", events |-> <<>>,
                            seq |-> LatestSequenceReturn(r.dest, r.err), err |-> r.err,
                            decoded |-> 0, broken |-> failure.at # "none"]
              /\ executed' = r.executed
    /\ UNCHANGED <<pushVars, placeholderVars>>

InitQuery ==
    /\ log \in QueryLogs
    /\ PushIdle
    /\ PlaceholderIdle
    /\ QueryIdle

NextQuery == Filter \/ LatestSequence

SpecQuery == InitQuery /\ [][NextQuery]_vars

\* A failed transaction is never committed: when every goroutine is done and
\* the closure returns nil, no statement of the transaction has failed.
NoCommitOfFailedTx ==
    \A c \in Callers : (AllDone(c) /\ ClosureResult(c) = "nil") => ~tx[c].aborted

\* ---------------------------------------------------------------- claims
Running(c) == pc[c] = "run"
Returned(c) == pc[c] = "done"
Tasks(c) == 1..Len(events[c])

\* Caller c's Push call has returned, its statement prepared and its
\* goroutines run to the end.
Ran(c) == Returned(c) /\ ret[c] # "SQL-OdXRE" /\ Len(tres[c]) = Len(events[c])

SameAggregate(e, f) ==
    e.AggregateType = f.AggregateType /\ e.AggregateID = f.AggregateID

\* The events of caller c's Push call whose rows are committed.
CommittedOf(c) ==
    {i \in Tasks(c) : \E k \in 1..Len(log) : log[k].id = RowID(c, i)}

\* C1: atomicity of Push: when Push has returned, either every event of the
\* batch is a committed row of the log or none is.
C1_Atomicity ==
    \A c \in Callers :
        Returned(c) => CommittedOf(c) = {} \/ CommittedOf(c) = Tasks(c)

\* The stream of an event, in the rows its transaction sees.
StreamOf(c, i) ==
    StreamSeqs(View(tx[c]), events[c][i].AggregateType, events[c][i].AggregateID)

\* The condition of the optimistic-concurrency check, on the values of the
\* goroutine: the check is off, or the previous sequence is the stream's
\* maximum, or the stream is empty and no previous sequence is given.
CheckPasses(c, i) ==
    \/ ~events[c][i].CheckPreviousSequence
    \/ /\ StreamOf(c, i) # {}
       /\ tprev[c][i] # 0
       /\ \A q \in StreamOf(c, i) : q <= tprev[c][i]
       /\ tprev[c][i] \in StreamOf(c, i)
    \/ /\ StreamOf(c, i) = {}
       /\ tprev[c][i] = 0

\* C2: the check-and-insert statement of one event, when the backend executes
\* it, inserts a row if and only if the check is off, or the previous sequence
\* equals the stream's maximum, or the stream is empty and the previous
\* sequence absent; otherwise it inserts nothing and the event's append fails
\* (its Scan gives ErrNoRows).
C2_CheckAndInsert ==
    [][\A c \in Callers : \A i \in Tasks(c) :
          (Running(c) /\ tpc[c][i] = "exec" /\ tpc'[c][i] = "post"
                /\ tres'[c][i] # "pqError")
          => /\ CheckPasses(c, i) <=>
                    /\ Len(tx'[c].writes) = Len(tx[c].writes) + 1
                    /\ tx'[c].writes[Len(tx'[c].writes)].id = RowID(c, i)
             /\ ~CheckPasses(c, i) =>
                    /\ tx'[c].writes = tx[c].writes
                    /\ tres'[c][i] = "ErrNoRows"
                    /\ err'[c] = "ErrNoRows"]_vars

\* A statement with the check on has returned no row, and one has inserted a
\* row into a stream that had events.
C2_Witness ==
    \E c \in Callers : \E i, j \in Tasks(c) :
        /\ Running(c)
        /\ events[c][i].CheckPreviousSequence /\ tres[c][i] = "ErrNoRows"
        /\ events[c][j].CheckPreviousSequence /\ tres[c][j] = "row"
        /\ events[c][j].Sequence > 1

\* C3: no log holds two committed rows of one stream with the same non-null
\* previous_sequence: of concurrent appends to one stream with the same
\* previous sequence, at most one commits.
C3_RaceFree ==
    \A j, k \in 1..Len(log) :
        (/\ j # k
         /\ log[j].aggregate_type = log[k].aggregate_type
         /\ log[j].aggregate_id = log[k].aggregate_id
         /\ log[j].previous_sequence # Null)
        => log[j].previous_sequence # log[k].previous_sequence

\* Two Push calls run at the same time, each has inserted a row for the same
\* stream with the same previous sequence, and one of them is committed.
C3_Witness ==
    \E c, d \in Callers :
        /\ c # d
        /\ Returned(c) /\ ret[c] = "nil" /\ CommittedOf(c) = {1}
        /\ Running(d) /\ Len(events[d]) = 1 /\ tres[d][1] = "row"
        /\ tx[d].writes[1].aggregate_type = tx[c].writes[1].aggregate_type
        /\ tx[d].writes[1].aggregate_id = tx[c].writes[1].aggregate_id
        /\ tx[c].writes[1].previous_sequence # Null
        /\ tx[d].writes[1].previous_sequence = tx[c].writes[1].previous_sequence

\* C4: a Push of one event with the check on and previousSequence = S, on a
\* stream at S, succeeds and yields S + 1; the same Push repeated with the now
\* stale S fails with an error of kind PreconditionFailed.  (Stated for the
\* statements the backend executes.)
C4_StaleIsPreconditionFailed ==
    \A c \in Callers :
        (Ran(c) /\ Len(events[c]) = 1 /\ events[c][1].CheckPreviousSequence)
        => /\ tres[c][1] = "row" =>
                /\ ret[c] = "nil"
                /\ events[c][1].Sequence = events[c][1].PreviousSequence + 1
           /\ (/\ tres[c][1] = "ErrNoRows"
               /\ \E k \in 1..Len(log) :
                    /\ log[k].aggregate_type = events[c][1].AggregateType
                    /\ log[k].aggregate_id = events[c][1].AggregateID
                    /\ log[k].check_previous
                    /\ log[k].previous_sequence = events[c][1].PreviousSequence)
              => Kind(ret[c]) = "PreconditionFailed"

\* C5: a batch of two events of one aggregate, the second linked to the first
\* by previousEvent with the check on, succeeds under every interleaving (the
\* first event's statement inserting its row, the backend failing none) and
\* gives the second event the first's sequence plus one.
C5_ChainedBatch ==
    \A c \in Callers :
        (/\ Ran(c) /\ Len(events[c]) = 2
         /\ events[c][2].PreviousEvent = 1
         /\ SameAggregate(events[c][1], events[c][2])
         /\ events[c][2].CheckPreviousSequence
         /\ tres[c][1] = "row" /\ tres[c][2] # "pqError")
        => /\ ret[c] = "nil"
           /\ events[c][2].Sequence = events[c][1].Sequence + 1

C7_SequenceMonotonic ==
    \A j, k \in 1..Len(log) :
        (/\ j < k
         /\ log[j].aggregate_type = log[k].aggregate_type
         /\ log[j].aggregate_id = log[k].aggregate_id)
        => log[j].event_sequence < log[k].event_sequence

\* A stream holds three rows, two of them of one batch.
C7_Witness ==
    \E j, k, l \in 1..Len(log) :
        /\ j < k /\ k < l
        /\ log[j].aggregate_id = log[k].aggregate_id
        /\ log[k].aggregate_id = log[l].aggregate_id
        /\ log[j].aggregate_type = log[k].aggregate_type
        /\ log[k].aggregate_type = log[l].aggregate_type
        /\ log[l].event_sequence = 3

\* C8: Push returns an error if and only if an event of the batch failed its
\* own same-aggregate validation or its own statement (the failure of the
\* prepare aside).
C8_ErrorIffOwnFailure ==
    \A c \in Callers :
        Ran(c) =>
            (ret[c] # "nil" <=>
                \E i \in Tasks(c) : tres[c][i] \in {"mismatch", "ErrNoRows", "pqError"})

\* C9: when Push has returned, an event carries an id or a sequence of the
\* store only if its row is committed with that id and sequence.
C9_AssignedIffCommitted ==
    \A c \in Callers : \A i \in Tasks(c) :
        (Returned(c) /\ (events[c][i].ID # 0 \/ events[c][i].Sequence # 0))
        => \E k \in 1..Len(log) :
              /\ log[k].id = events[c][i].ID
              /\ log[k].event_sequence = events[c][i].Sequence

C16_Barrier ==
    [][/\ \A c \in Callers :
            (pc[c] = "run" /\ pc'[c] # "run")
            => /\ \A i \in Tasks(c) : tpc[c][i] = "done"
               /\ Len(errs[c]) <= Len(events[c])
       /\ log' # log =>
            \E c \in Callers :
                /\ pc[c] = "run" /\ pc'[c] = "done"
                /\ \A i \in Tasks(c) : tpc[c][i] = "done"]_vars

\* One goroutine of a batch has reported its error while another has still to
\* execute its statement.
C16_Witness ==
    \E c \in Callers :
        /\ Running(c) /\ Len(events[c]) = 2
        /\ tpc[c][1] = "done" /\ tpc[c][2] = "exec"
        /\ errs[c] # <<>>

\* The sequences of the rows of log[k]'s stream committed before log[k].
EarlierSeqs(k) ==
    StreamSeqs(SubSeq(log, 1, k - 1), log[k].aggregate_type, log[k].aggregate_id)

\* C17 as stated: a committed row's previous_sequence is null exactly when the
\* row was appended with the concurrency check disabled.
C17_NullIffCheckDisabled ==
    \A k \in 1..Len(log) :
        log[k].previous_sequence = Null <=> ~log[k].check_previous

\* C17 amended: a row appended with the check disabled stores a null
\* previous_sequence; a row appended with the check enabled stores the
\* sequence of the event before it in its stream, and null when it is the
\* first event of its stream.
C17_PreviousSequenceColumn ==
    \A k \in 1..Len(log) :
        /\ ~log[k].check_previous => log[k].previous_sequence = Null
        /\ log[k].check_previous =>
              IF EarlierSeqs(k) = {}
              THEN log[k].previous_sequence = Null
              ELSE log[k].previous_sequence = SeqMax(EarlierSeqs(k))

\* The log holds the first event of a stream, appended with the check enabled,
\* and after it an event appended with the check enabled.
C17_Witness ==
    \E j, k \in 1..Len(log) :
        /\ j < k
        /\ log[j].check_previous /\ log[j].previous_sequence = Null
        /\ log[k].check_previous /\ log[k].previous_sequence = log[j].event_sequence
        /\ log[k].aggregate_id = log[j].aggregate_id

\* C20: a goroutine whose same-aggregate validation or statement fails leaves
\* its event unchanged: no step of it modifies a field of the event.
C20_FailedTaskLeavesEvent ==
    [][\A c \in Callers : \A i \in Tasks(c) :
          (/\ pc[c] = "run" /\ pc'[c] = "run"
           /\ tpc'[c][i] # tpc[c][i]
           /\ tres'[c][i] \in {"mismatch", "ErrNoRows", "pqError"})
          => events'[c][i] = events[c][i]]_vars

\* The goroutines of caller c's Push call that are done.
DoneTasks(c) == {i \in Tasks(c) : tpc[c][i] = "done"}

\* C19: the fan-out of Push ends without deadlock: a goroutine sends at most
\* one error, and none before its last step, so the channel never holds more
\* errors than goroutines are done (no send blocks on the capacity
\* len(events), and nothing is sent after the close that follows wg.Wait);
\* and every goroutine gets done, so that wg.Wait returns.
C19_FanOutTerminates ==
    /\ [](\A c \in Callers :
            Running(c) => /\ Len(errs[c]) <= Cardinality(DoneTasks(c))
                          /\ Len(errs[c]) <= Len(events[c]))
    /\ \A c \in Callers : Running(c) ~> AllDone(c)

\* Every goroutine of a batch of two has sent an error: the channel is full.
C19_Witness ==
    \E c \in Callers :
        /\ AllDone(c) /\ Len(events[c]) = 2 /\ Len(errs[c]) = 2

\* The per-event steps of caller c's Push call executed one after the other,
\* in submission order, in the transaction of the call: after k events, the
\* rows written, the sequences assigned and the errors sent.
SequentialRun(c) ==
    LET n == Len(events[c])
        committed == SubSeq(log, 1, tx[c].base)
        st[k \in 0..n] ==
            IF k = 0
            THEN [writes |-> <<>>, seqs |-> [i \in 1..n |-> 0], errs |-> <<>>]
            ELSE LET p == st[k - 1]
                     event == events[c][k]
                     linked == event.PreviousEvent # 0
                     previous == events[c][event.PreviousEvent]
                     previousSequence ==
                         IF linked THEN p.seqs[event.PreviousEvent]
                         ELSE event.PreviousSequence
                     rows == committed \o p.writes
                     seq == NextSequence(rows, event.AggregateType, event.AggregateID)
                 IN  IF linked /\ ~SameAggregate(previous, event)
                     THEN [p EXCEPT !.errs = Append(@, "SQL-J55uR")]
                     ELSE IF InsertWhere(event.CheckPreviousSequence,
                                 MaxEventSeq(rows, event.AggregateType, event.AggregateID),
                                 SequenceValue(previousSequence))
                          THEN [p EXCEPT
                                  !.writes = Append(@, [id |-> RowID(c, k),
                                      event_sequence |-> seq,
                                      previous_sequence |->
                                          InsertedPrevious(event.CheckPreviousSequence,
                                                           SequenceValue(previousSequence)),
                                      aggregate_type |-> event.AggregateType,
                                      aggregate_id |-> event.AggregateID,
                                      check_previous |-> event.CheckPreviousSequence]),
                                  !.seqs[k] = seq]
                          ELSE [p EXCEPT !.errs = Append(@, "SQL-SBP37")]
    IN  st[n]

\* The error a sequential dispatch returns: the first error sent.
SequentialError(c) ==
    IF SequentialRun(c).errs = <<>> THEN "nil" ELSE Head(SequentialRun(c).errs)

\* C18: the outcome of Push with one goroutine per event (committed or rolled
\* back, the kind of the error returned, the sequences assigned) is the
\* outcome of the same per-event steps executed one after the other in
\* submission order.  (Stated for the batches none of whose statements the
\* backend fails; the sequences are compared for the committed calls.)
C18_ConcurrentIsSequential ==
    \A c \in Callers :
        (Ran(c) /\ \A i \in Tasks(c) : tres[c][i] # "pqError")
        => /\ Kind(ret[c]) = Kind(SequentialError(c))
           /\ ret[c] = "nil"
                  => /\ tx[c].writes = SequentialRun(c).writes
                     /\ \A i \in Tasks(c) :
                            events[c][i].Sequence = SequentialRun(c).seqs[i]

\* The string q with its markers replaced from the left by "$i", "$i+1", ...
\* and every other character kept.
RECURSIVE Renumbered(_, _)
Renumbered(q, i) ==
    IF q = <<>> THEN <<>>
    ELSE IF Head(q) = "?"
         THEN <<"$">> \o Itoa(i) \o Renumbered(Tail(q), i + 1)
         ELSE <<Head(q)>> \o Renumbered(Tail(q), i)

Markers(q) == {p \in 1..Len(q) : q[p] = "?"}

\* C11: placeholder returns the query with the i-th marker from the left
\* replaced by "$i" (i = 1..k) and every other character kept in place and in
\* order; a query without a marker is returned unchanged.
C11_PlaceholderTranslation ==
    replaced # NotCalled
    => /\ replaced = Renumbered(query, 1)
       /\ Markers(query) = {} => replaced = query

\* A query with markers up to a two-digit number and other characters between
\* them has been translated.
C11_Witness ==
    /\ replaced # NotCalled
    /\ Cardinality(Markers(query)) >= 10
    /\ \E p \in 2..(Len(query) - 1) : query[p] # "?"

\* Every committed row carries the next sequence of its stream: the tables
\* Filter and LatestSequence are checked on are tables Push produces.
LogSequencesContiguous ==
    \A k \in 1..Len(log) :
        log[k].event_sequence =
            Cardinality({j \in 1..k : /\ log[j].aggregate_type = log[k].aggregate_type
                                      /\ log[j].aggregate_id = log[k].aggregate_id})

\* What a filter says of a row, read off the SearchQuery itself.
FieldOf(row, field) ==
    CASE field = "FieldAggregateID" -> row.aggregate_id
      [] field = "FieldAggregateType" -> row.aggregate_type
      [] field = "FieldSequence" -> row.event_sequence

Satisfies(row, f) ==
    CASE f.Operation = "OperationIn" -> FieldOf(row, f.Field) \in f.Value.v
      [] f.Operation = "OperationEquals" -> FieldOf(row, f.Field) = ScalarOf(f.Value)
      [] f.Operation = "OperationGreater" -> FieldOf(row, f.Field) > ScalarOf(f.Value)
      [] f.Operation = "OperationLess" -> FieldOf(row, f.Field) < ScalarOf(f.Value)

FilterIndexes(sq) == 1..Len(sq.Filters)

\* The fields of the store, a collection for in-set and a scalar otherwise.
WellFormed(sq) ==
    \A n \in FilterIndexes(sq) :
        /\ sq.Filters[n].Field \in {"FieldAggregateID", "FieldAggregateType", "FieldSequence"}
        /\ sq.Filters[n].Value.array = (sq.Filters[n].Operation = "OperationIn")

Matching(sq) ==
    SelectSeq(log, LAMBDA row : \A n \in FilterIndexes(sq) : Satisfies(row, sq.Filters[n]))

MatchingEvents(sq) ==
    [k \in 1..Len(Matching(sq)) |->
        [Sequence |-> Matching(sq)[k].event_sequence,
         PreviousSequence |-> 0,
         AggregateType |-> Matching(sq)[k].aggregate_type,
         AggregateID |-> Matching(sq)[k].aggregate_id]]

Unbuildable(sq) ==
    \E n \in FilterIndexes(sq) :
        sq.Filters[n].Field \notin
            {"FieldAggregateID", "FieldAggregateType", "FieldSequence",
             "FieldResourceOwner", "FieldEditorService", "FieldEditorUser",
             "FieldEventType"}

\* C12: for a SearchQuery the builder cannot translate (a field the store does
\* not know), Filter and LatestSequence return an error of kind
\* InvalidArgument without executing a query on the backend; Filter returns
\* no events and LatestSequence returns 0.
C12_UnbuildableIsInvalidArgument ==
    (result.op # "none" /\ Unbuildable(searchQuery))
    => /\ Kind(result.err) = "InvalidArgument"
       /\ executed = 0
       /\ result.events = <<>>
       /\ result.seq = 0

\* Filter was called, on a table with rows, with a condition that matches
\* them and a second condition on an unknown field.
C12_Witness ==
    /\ result.op = "Filter"
    /\ Len(log) >= 2
    /\ Len(searchQuery.Filters) = 2
    /\ searchQuery.Filters[1].Field = "FieldAggregateType"
    /\ searchQuery.Filters[1].Value = Scalar("user")
    /\ searchQuery.Filters[2].Field = "FieldUnknown"
    /\ result.err = "SQL-rWeBw"

\* C13: whenever Filter returns an error (the query failed, or a row failed
\* to decode after other rows were decoded), the event list it returns is
\* empty.
C13_NoPartialResultSets ==
    (result.op = "Filter" /\ result.err # "nil") => result.events = <<>>

\* Filter failed at a row after it had decoded two.
C13_Witness ==
    /\ result.op = "Filter"
    /\ result.err = "scan error"
    /\ result.decoded >= 2

HasInSet(sq) == \E n \in FilterIndexes(sq) : sq.Filters[n].Operation = "OperationIn"
HasEmptyInSet(sq) ==
    \E n \in FilterIndexes(sq) :
        sq.Filters[n].Operation = "OperationIn" /\ sq.Filters[n].Value.v = {}

FilterExactWheneverNoError ==
    (result.op = "Filter" /\ WellFormed(searchQuery) /\ result.err = "nil")
    => result.events = MatchingEvents(searchQuery)

SelectsStream(sq, a) ==
    /\ Len(sq.Filters) = 2
    /\ sq.Filters[1] = [Field |-> "FieldAggregateType", Operation |-> "OperationEquals",
                        Value |-> Scalar(a[1])]
    /\ sq.Filters[2] = [Field |-> "FieldAggregateID", Operation |-> "OperationEquals",
                        Value |-> Scalar(a[2])]

LatestOf(sq) ==
    IF Matching(sq) = <<>> THEN 0
    ELSE SeqMax({Matching(sq)[k].event_sequence : k \in 1..Len(Matching(sq))})

LatestSequenceWheneverNoError ==
    (result.op = "LatestSequence" /\ WellFormed(searchQuery) /\ result.err = "nil")
    => result.seq = LatestOf(searchQuery)

====
